---- MODULE Spec2Model ----
(***************************************************************************)
(* UncertaintyMeasurer.measure_uncertainty (src/src/measure_uncertainty.py) *)
(* as a state machine: one action per provider request and per computation *)
(* step of the method, in the order the method performs them.              *)
(*                                                                         *)
(* Numbers: Python floats are modelled as exact rationals [n, d] in lowest *)
(* terms with d > 0; float('inf') is [n |-> 1, d |-> 0].                   *)
(* None: an optional value is <<>> (None) or <<v>> (the value v).          *)
(***************************************************************************)
EXTENDS Integers, Sequences, FiniteSets, TLC

\* Largest num_samples the caller passes.
MaxSamples == 2

(***************************************************************************)
(* Optional values.                                                        *)
(***************************************************************************)
None == <<>>
Some(v) == <<v>>
IsNone(o) == Len(o) = 0
Get(o) == o[1]

(***************************************************************************)
(* Exact rational arithmetic standing for float arithmetic.                *)
(***************************************************************************)
Abs(x) == IF x < 0 THEN -x ELSE x

RECURSIVE GCD(_, _)
GCD(a, b) == IF b = 0 THEN a ELSE GCD(b, a % b)

\* n/d in lowest terms with a positive denominator (d # 0).
Rat(n, d) ==
    LET g == GCD(Abs(n), Abs(d))
        s == IF d < 0 THEN -1 ELSE 1
    IN  [n |-> s * (n \div g), d |-> s * (d \div g)]

Zero == [n |-> 0, d |-> 1]
Inf == [n |-> 1, d |-> 0]
IsInf(x) == x.d = 0

RAdd(x, y) == Rat(x.n * y.d + y.n * x.d, x.d * y.d)
RMul(x, y) == Rat(x.n * y.n, x.d * y.d)
\* x / y for y # 0
RDiv(x, y) == Rat(x.n * y.d, x.d * y.n)
\* x / k for an integer k > 0
RDivInt(x, k) == Rat(x.n, x.d * k)
\* x > y; +inf is greater than every finite value and not greater than itself
RGt(x, y) ==
    IF IsInf(y) THEN FALSE
    ELSE IF IsInf(x) THEN TRUE
    ELSE x.n * y.d > y.n * x.d
\* Variant: >= taken as >.
RGeStrict(x, y) == RGt(x, y)

RGe(x, y) == x = y \/ RGt(x, y)
RLt(x, y) == RGt(y, x)

RECURSIVE RSum(_)
RSum(s) == IF Len(s) = 0 THEN Zero ELSE RAdd(Head(s), RSum(Tail(s)))

RECURSIVE Pow10(_)
Pow10(k) == IF k = 0 THEN 1 ELSE 10 * Pow10(k - 1)

\* round(x, k): to k decimals, ties to even; round(inf, k) is inf.
Round(x, k) ==
    IF IsInf(x) THEN x
    ELSE LET num == x.n * Pow10(k)
             q == num \div x.d
             r == num % x.d
             up == \/ 2 * r > x.d
                   \/ (2 * r = x.d /\ q % 2 = 1)
         IN  Rat(IF up THEN q + 1 ELSE q, Pow10(k))


RECURSIVE Pow2Int(_)
Pow2Int(k) == IF k = 0 THEN 1 ELSE 2 * Pow2Int(k - 1)

\* The k-th and later terms of the series of exp(y), y = Y/10000, each in
\* units of 1/10000 (fixed point, truncated), up to the 9th term.
RECURSIVE ExpTerms(_, _, _)
ExpTerms(Y, k, term) ==
    IF k > 9 THEN 0
    ELSE term + ExpTerms(Y, k + 1, (term * Y) \div ((k + 1) * 10000))

\* 2 ** x. Exact when x is an integer; otherwise 2^floor(x) * exp(f * ln 2)
\* with f the fractional part, evaluated in fixed point to 4 decimals where
\* the float computation carries about 16.
Pow2(x) ==
    LET e == x.n \div x.d
        f == Rat(x.n - e * x.d, x.d)
        m == IF f.n = 0 THEN 10000
             ELSE ExpTerms((f.n * 6931) \div f.d, 0, 10000)
    IN  IF e >= 0 THEN Rat(m * Pow2Int(e), 10000)
        ELSE Rat(m, 10000 * Pow2Int(-e))

(***************************************************************************)
(* The provider's data: a token carries an optional log-probability, a     *)
(* logprobs object an optional list of tokens (choices[0].logprobs.content)*)
(***************************************************************************)
Tok(x) == [logprob |-> Some(x)]
NullTok == [logprob |-> None]
LPObj(tokens) == Some([content |-> Some(tokens)])
LPNoContent == Some([content |-> None])

\* What one chat.completions.create call does: it raises (ok = FALSE) or
\* returns a completion with message.content = text and logprobs = logprobs.
Raises == [ok |-> FALSE, text |-> None, logprobs |-> None]
Completion(text, logprobs) == [ok |-> TRUE, text |-> text, logprobs |-> logprobs]

\* The completions the provider may return to a sampling request.
SampleCompletions ==
    { Completion(Some("Paris"), LPObj(<<Tok(Rat(-1, 20))>>)),
      Completion(Some("Lyon"), LPObj(<<Tok(Rat(-9, 5)), Tok(Rat(-9, 5))>>)),
      Completion(Some("Paris"), LPObj(<<Tok(Zero)>>)),
      Completion(Some("Lyon"), LPObj(<<Tok(Rat(-2, 1)), NullTok>>)),
      Completion(None, LPObj(<<Tok(Rat(-2, 1))>>)),
      Completion(Some("Paris"), None),
      Completion(Some("Lyon"), LPNoContent) }

\* The completions the provider may return to a reference-phrase request.
PhraseCompletions ==
    { Completion(Some("about that"), LPObj(<<Tok(Rat(-2, 1))>>)),
      Completion(Some("about this one"), LPObj(<<Tok(Rat(-1, 1)), Tok(Rat(-1, 2))>>)),
      Completion(Some("!"), LPObj(<<Tok(Rat(1, 1))>>)) }

\* The completions the provider may return to the fallback-generation request.
GenerateCompletions ==
    { Completion(Some(" which city is meant "), None),
      Completion(None, None) }

\* The uncertainty_threshold values the caller passes.
Thresholds == { Rat(-1, 1), Rat(1, 1), Rat(6, 5) }

(***************************************************************************)
(* Helpers of UncertaintyMeasurer.                                         *)
(***************************************************************************)
\* [x for x in lst if x is not None], as a list of the values
RECURSIVE NotNone(_)
NotNone(lst) ==
    IF Len(lst) = 0 THEN <<>>
    ELSE (IF IsNone(Head(lst)) THEN <<>> ELSE <<Get(Head(lst))>>) \o NotNone(Tail(lst))

\* Variant: a token without a log-probability counted with log-probability 0.
RECURSIVE TokenLogprobsNullAsZero(_)
TokenLogprobsNullAsZero(tokens) ==
    IF Len(tokens) = 0 THEN <<>>
    ELSE (IF IsNone(Head(tokens).logprob) THEN <<Zero>> ELSE <<Get(Head(tokens).logprob)>>)
         \o TokenLogprobsNullAsZero(Tail(tokens))

\* The log-probabilities one logprobs entry contributes to the two
\* aggregators: none unless "logprobs and logprobs.content" holds, and then
\* those of the tokens whose logprob is not None.
RECURSIVE TokenLogprobs(_)
TokenLogprobs(tokens) ==
    IF Len(tokens) = 0 THEN <<>>
    ELSE (IF IsNone(Head(tokens).logprob) THEN <<>> ELSE <<Get(Head(tokens).logprob)>>)
         \o TokenLogprobs(Tail(tokens))

CountedLogprobs(logprobs) ==
    IF IsNone(logprobs) THEN <<>>
    ELSE IF IsNone(Get(logprobs).content) THEN <<>>
    ELSE TokenLogprobs(Get(Get(logprobs).content))

RECURSIVE AllCountedLogprobs(_)
AllCountedLogprobs(logprobs_data) ==
    IF Len(logprobs_data) = 0 THEN <<>>
    ELSE CountedLogprobs(Head(logprobs_data)) \o AllCountedLogprobs(Tail(logprobs_data))

\* Variant: 2 ** (-logprob).
RECURSIVE MapPow2Negated(_)
MapPow2Negated(lps) ==
    IF Len(lps) = 0 THEN <<>>
    ELSE <<Pow2(Rat(-Head(lps).n, Head(lps).d))>> \o MapPow2Negated(Tail(lps))

\* Variant: the log-probabilities averaged as they are, without 2 ** logprob.
MapNoPow2(lps) == lps

RECURSIVE MapPow2(_)
MapPow2(lps) == IF Len(lps) = 0 THEN <<>> ELSE <<Pow2(Head(lps))>> \o MapPow2(Tail(lps))

_calculate_average_confidence(logprobs_data) ==
    LET lps == AllCountedLogprobs(logprobs_data)
        total_tokens == Len(lps)
    IN  IF Len(logprobs_data) = 0 THEN Zero
        ELSE IF total_tokens = 0 THEN Zero
        ELSE RDivInt(RSum(MapPow2(lps)), total_tokens)

\* Variant: the mean of the per-sample means of the samples with tokens.
RECURSIVE SampleMeans(_)
SampleMeans(logprobs_data) ==
    IF Len(logprobs_data) = 0 THEN <<>>
    ELSE LET lps == CountedLogprobs(Head(logprobs_data))
         IN  (IF Len(lps) = 0 THEN <<>> ELSE <<RDivInt(RSum(lps), Len(lps))>>)
             \o SampleMeans(Tail(logprobs_data))
MeanOfSampleMeans(logprobs_data) ==
    LET means == SampleMeans(logprobs_data)
    IN  IF Len(means) = 0 THEN Zero ELSE RDivInt(RSum(means), Len(means))

_calculate_mean_logprob(logprobs_data) ==
    LET lps == AllCountedLogprobs(logprobs_data)
        total_tokens == Len(lps)
    IN  IF Len(logprobs_data) = 0 THEN Zero
        ELSE IF total_tokens = 0 THEN Zero
        ELSE RDivInt(RSum(lps), total_tokens)

\* Variant: every valid response counted as unique.
RangeAll(lst) == 1..Len(lst)

\* Variant: texts compared after trimming and lower-casing.
Normalized(text) == IF text \in {"paris", "Paris "} THEN "Paris" ELSE text
RangeNormalized(lst) == { Normalized(lst[k]) : k \in 1..Len(lst) }

\* len(set(valid_responses))
Range(lst) == { lst[k] : k \in 1..Len(lst) }

EmptyDict == [k \in {} |-> k]

HighRecommendation ==
    "The model is highly uncertain. Consider reformulating the question or providing more context."
MediumRecommendation ==
    "The model shows some uncertainty. You may want to verify the response or ask for clarification."
LowRecommendation ==
    "The model appears confident in its response."

\* Variant: the early return reports the level of the last branch.
NoValidResponsesLevelLow ==
    [error |-> "No valid responses received", uncertainty_level |-> "low"]

\* The early return of _analyze_uncertainty.
NoValidResponses ==
    [error |-> "No valid responses received", uncertainty_level |-> "unknown"]

\* Variant: the failed entries are counted in the total.
AnalyzeCountsFailed(resps, logprobs_data) ==
    LET valid_responses == NotNone(resps)
        valid_logprobs == SelectSeq(logprobs_data, LAMBDA lp : ~IsNone(lp))
        unique_responses == Cardinality(Range(valid_responses))
        response_diversity == Rat(unique_responses, Len(resps))
        avg_confidence == _calculate_average_confidence(valid_logprobs)
        high == RGe(response_diversity, Rat(8, 10))
        medium == RGe(response_diversity, Rat(4, 10))
    IN  IF Len(valid_responses) = 0
        THEN NoValidResponses
        ELSE [unique_responses |-> unique_responses,
              total_samples |-> Len(resps),
              response_diversity |-> Round(response_diversity, 3),
              average_token_confidence |-> Round(avg_confidence, 3),
              uncertainty_level |->
                  IF high THEN "high" ELSE IF medium THEN "medium" ELSE "low",
              recommendation |->
                  IF high THEN HighRecommendation
                  ELSE IF medium THEN MediumRecommendation
                  ELSE LowRecommendation]

_analyze_uncertainty(resps, logprobs_data) ==
    LET valid_responses == NotNone(resps)
        valid_logprobs == SelectSeq(logprobs_data, LAMBDA lp : ~IsNone(lp))
        unique_responses == Cardinality(Range(valid_responses))
        response_diversity == Rat(unique_responses, Len(valid_responses))
        avg_confidence == _calculate_average_confidence(valid_logprobs)
        high == RGe(response_diversity, Rat(8, 10))
        medium == RGe(response_diversity, Rat(4, 10))
    IN  IF Len(valid_responses) = 0
        THEN NoValidResponses
        ELSE [unique_responses |-> unique_responses,
              total_samples |-> Len(valid_responses),
              response_diversity |-> Round(response_diversity, 3),
              average_token_confidence |-> Round(avg_confidence, 3),
              uncertainty_level |->
                  IF high THEN "high" ELSE IF medium THEN "medium" ELSE "low",
              recommendation |->
                  IF high THEN HighRecommendation
                  ELSE IF medium THEN MediumRecommendation
                  ELSE LowRecommendation]

uncertainty_phrases == <<"I'm not sure", "I'm insecure", "I need help">>

\* sum(d.values())
RECURSIVE DictSum(_)
DictSum(d) ==
    IF DOMAIN d = {} THEN Zero
    ELSE LET k == CHOOSE k \in DOMAIN d : TRUE
         IN  RAdd(d[k], DictSum([x \in DOMAIN d \ {k} |-> d[x]]))

\* d[key] = value
DictSet(d, key, value) == (key :> value) @@ d

\* sum(phrase_logprobs.values()) / len(phrase_logprobs) if phrase_logprobs else 0.0
PhraseMean(d) ==
    IF DOMAIN d = {} THEN Zero
    ELSE RDivInt(DictSum(d), Cardinality(DOMAIN d))

\* Variant: the quotient the other way round.
UncertaintyRatioInverted(phrase_mean, answer_mean) ==
    IF answer_mean # Zero
    THEN (IF phrase_mean # Zero THEN RDiv(answer_mean, phrase_mean) ELSE Inf)
    ELSE IF RGt(phrase_mean, Zero) THEN Inf ELSE Zero

\* Variant: a zero phrase mean counts as positive in the degenerate case.
UncertaintyRatioZeroIsInf(phrase_mean, answer_mean) ==
    IF answer_mean # Zero THEN RDiv(phrase_mean, answer_mean)
    ELSE IF RGe(phrase_mean, Zero) THEN Inf ELSE Zero

\* The ratio, avoiding division by zero.
UncertaintyRatio(phrase_mean, answer_mean) ==
    IF answer_mean # Zero THEN RDiv(phrase_mean, answer_mean)
    ELSE IF RGt(phrase_mean, Zero) THEN Inf ELSE Zero

\* Variant: a ratio equal to the threshold counts as uncertain.
IsUncertainInclusive(ratio, threshold) == RGe(ratio, threshold)

IsUncertain(ratio, threshold) == RGt(ratio, threshold)

(***************************************************************************)
(* The try blocks: what each does with the provider's outcome o. raised    *)
(* says whether an exception leaves the block.                             *)
(***************************************************************************)
\* Variant: the except clause records the failure in responses only.
SampleTryHalfRecord(resps, lps, o) ==
    IF o.ok
    THEN [raised |-> FALSE,
          responses |-> Append(resps, o.text),
          all_logprobs |-> Append(lps, o.logprobs)]
    ELSE [raised |-> FALSE,
          responses |-> Append(resps, None),
          all_logprobs |-> lps]

\* The body of the sampling loop.
SampleTry(resps, lps, o) ==
    IF o.ok
    THEN [raised |-> FALSE,
          responses |-> Append(resps, o.text),
          all_logprobs |-> Append(lps, o.logprobs)]
    ELSE [raised |-> FALSE,
          responses |-> Append(resps, None),
          all_logprobs |-> Append(lps, None)]

\* Variant: no except clause around the phrase request.
PhraseTryNoExcept(d, phrase, o) ==
    IF o.ok
    THEN [raised |-> FALSE,
          phrase_logprobs |-> DictSet(d, phrase, _calculate_mean_logprob(<<o.logprobs>>))]
    ELSE [raised |-> TRUE, phrase_logprobs |-> d]

\* Variant: a failed phrase is left out of the map.
PhraseTrySkipFailed(d, phrase, o) ==
    IF o.ok
    THEN [raised |-> FALSE,
          phrase_logprobs |-> DictSet(d, phrase, _calculate_mean_logprob(<<o.logprobs>>))]
    ELSE [raised |-> FALSE, phrase_logprobs |-> d]

\* The body of the loop of _get_phrase_logprobs.
PhraseTry(d, phrase, o) ==
    IF o.ok
    THEN [raised |-> FALSE,
          phrase_logprobs |-> DictSet(d, phrase, _calculate_mean_logprob(<<o.logprobs>>))]
    ELSE [raised |-> FALSE,
          phrase_logprobs |-> DictSet(d, phrase, Zero)]

GenericMessage ==
    <<"I'm unsure about how to answer this question accurately. Could you please provide more information or clarify your question?">>

\* str.strip() on the texts the provider returns here
Strip(text) == IF text = " which city is meant " THEN "which city is meant" ELSE text

\* Variant: no except clause around the fallback-generation request.
GenerateNoExcept(o) ==
    IF o.ok /\ ~IsNone(o.text)
    THEN [raised |-> FALSE,
          message |-> <<"I'm unsure about ", Strip(Get(o.text)),
                        "\n\nCould you please provide more information or clarify your question?">>]
    ELSE [raised |-> TRUE, message |-> <<>>]

\* _generate_uncertainty_message; a text is the list of its pieces. A
\* completion whose content is None makes .strip() raise inside the try.
_generate_uncertainty_message(o) ==
    IF o.ok /\ ~IsNone(o.text)
    THEN [raised |-> FALSE,
          message |-> <<"I'm unsure about ", Strip(Get(o.text)),
                        "\n\nCould you please provide more information or clarify your question?">>]
    ELSE [raised |-> FALSE, message |-> GenericMessage]

\* Variant: the last valid response instead of the first.
SelectResponseLast(resps) ==
    LET valid_responses == NotNone(resps)
    IN  IF Len(valid_responses) > 0 THEN <<valid_responses[Len(valid_responses)]>>
        ELSE <<"Unable to generate response.">>

\* The else branch of "if is_uncertain": the first valid response.
SelectResponse(resps) ==
    LET valid_responses == NotNone(resps)
    IN  IF Len(valid_responses) > 0 THEN <<valid_responses[1]>>
        ELSE <<"Unable to generate response.">>

\* Lines 129-135: the analysis with the ratio fields added.
FinalAnalysis(resps, lps, answer_mean, d, phrase_mean, ratio, threshold, uncertain) ==
    [answer_mean_logprob |-> Round(answer_mean, 4),
     uncertainty_phrase_logprobs |-> [k \in DOMAIN d |-> Round(d[k], 4)],
     uncertainty_phrase_mean_logprob |-> Round(phrase_mean, 4),
     uncertainty_ratio |-> Round(ratio, 4),
     uncertainty_threshold |-> threshold,
     is_uncertain |-> uncertain]
    @@ _analyze_uncertainty(resps, lps)

(***************************************************************************)
(* format_results. Texts are strings; "+", "*" and slicing are \o, Rep and *)
(* SubSeq.                                                                 *)
(***************************************************************************)
\* s * n
RECURSIVE Rep(_, _)
Rep(s, n) == IF n = 0 THEN "" ELSE s \o Rep(s, n - 1)

\* "\n".join(lines)
RECURSIVE Join(_)
Join(lines) ==
    IF Len(lines) = 0 THEN ""
    ELSE IF Len(lines) = 1 THEN lines[1]
    ELSE lines[1] \o "\n" \o Join(Tail(lines))

\* str(n) of an int
DigitChar(d) == SubSeq("0123456789", d + 1, d + 1)
RECURSIVE IntStr(_)
IntStr(n) ==
    IF n < 0 THEN "-" \o IntStr(-n)
    ELSE IF n < 10 THEN DigitChar(n)
    ELSE IntStr(n \div 10) \o DigitChar(n % 10)

\* The decimals of rem/d, at most k of them.
RECURSIVE FracStr(_, _, _)
FracStr(rem, d, k) ==
    IF rem = 0 \/ k = 0 THEN ""
    ELSE DigitChar((rem * 10) \div d) \o FracStr((rem * 10) % d, d, k - 1)

\* str(x) of a float in the range where repr uses no exponent: "inf",
\* or sign, integer part, point and decimals ("1.0", "-0.5", "0.333").
FloatStr(x) ==
    IF IsInf(x) THEN "inf"
    ELSE LET a == Abs(x.n)
             frac == FracStr(a % x.d, x.d, 17)
         IN  (IF x.n < 0 THEN "-" ELSE "") \o IntStr(a \div x.d) \o "."
             \o (IF frac = "" THEN "0" ELSE frac)

\* Variant: the level printed as it is stored.
UpperNone(text) == text

\* str.upper() for ASCII letters
RECURSIVE Upper(_)
Upper(text) ==
    IF text = "" THEN ""
    ELSE LET c == SubSeq(text, 1, 1)
             lower == "abcdefghijklmnopqrstuvwxyz"
             at == { k \in 1..26 : SubSeq(lower, k, k) = c }
         IN  (IF at = {} THEN c
              ELSE LET k == CHOOSE x \in at : TRUE
                   IN  SubSeq("ABCDEFGHIJKLMNOPQRSTUVWXYZ", k, k))
             \o Upper(SubSeq(text, 2, Len(text)))

\* Lines 376-377: a response longer than 200 characters is cut.
Display(response) ==
    IF Len(response) > 200 THEN SubSeq(response, 1, 200) \o "..." ELSE response

\* Lines 374-377: the loop over enumerate(results['responses'], 1) from entry k.
RECURSIVE ResponseLines(_, _)
ResponseLines(resps, k) ==
    IF k > Len(resps) THEN <<>>
    ELSE (IF IsNone(resps[k]) THEN <<>>
          ELSE <<"\nResponse " \o IntStr(k) \o ":", Display(Get(resps[k]))>>)
         \o ResponseLines(resps, k + 1)

\* "=" * 80 and "-" * 80
Rule == Rep("=", 80)
ThinRule == Rep("-", 80)

\* Lines 340-381: the text.
FormatOutput(results) ==
    LET analysis == results.uncertainty_analysis
        top == <<Rule,
                 "UNCERTAINTY MEASUREMENT RESULTS",
                 Rule,
                 "\nPrompt: " \o results.prompt,
                 "\nNumber of samples: " \o IntStr(results.num_samples),
                 "\n" \o ThinRule,
                 "UNCERTAINTY ANALYSIS",
                 ThinRule>>
        ratio_lines ==
            IF "uncertainty_ratio" \in DOMAIN analysis
            THEN <<"\nAnswer Mean Logprob: " \o FloatStr(analysis.answer_mean_logprob),
                   "Uncertainty Phrases Mean Logprob: "
                       \o FloatStr(analysis.uncertainty_phrase_mean_logprob),
                   "Uncertainty Ratio: " \o FloatStr(analysis.uncertainty_ratio),
                   "Threshold: " \o FloatStr(analysis.uncertainty_threshold),
                   "Status: " \o (IF analysis.is_uncertain
                                  THEN "UNCERTAIN (ratio > threshold)"
                                  ELSE "CONFIDENT (ratio <= threshold)")>>
            ELSE <<>>
        middle ==
            IF "error" \in DOMAIN analysis
            THEN <<"\nError: " \o analysis.error>>
            ELSE <<"\nUncertainty Level: " \o Upper(analysis.uncertainty_level),
                   "Response Diversity: " \o FloatStr(analysis.response_diversity)
                       \o " (" \o IntStr(analysis.unique_responses) \o "/"
                       \o IntStr(analysis.total_samples) \o " unique)",
                   "Average Token Confidence: "
                       \o FloatStr(analysis.average_token_confidence)>>
                 \o ratio_lines
                 \o <<"\nRecommendation: " \o analysis.recommendation>>
        bottom == <<"\n" \o ThinRule,
                    "INDIVIDUAL RESPONSES",
                    ThinRule>>
                  \o ResponseLines(results.responses, 1)
                  \o <<"\n" \o Rule>>
    IN  Join(top \o middle \o bottom)

\* Variant: the responses list is emptied while it is rendered.
FormatResultsConsuming(results) ==
    [output |-> FormatOutput(results),
     results |-> [results EXCEPT !.responses = <<>>]]

\* format_results: the text it returns and its argument after the call.
format_results(results) ==
    [output |-> FormatOutput(results), results |-> results]

(***************************************************************************)
(* State: the arguments and locals of one measure_uncertainty call, the    *)
(* position in it, and the requests the provider has received.             *)
(***************************************************************************)
VARIABLES
    pc,                     \* where the call is
    prompt, num_samples, uncertainty_threshold,   \* arguments
    i,                      \* requests the sampling loop has issued
    responses, all_logprobs,
    answer_mean_logprob,
    phrase_idx,             \* next phrase of _get_phrase_logprobs
    phrase_logprobs,
    uncertainty_phrase_mean, uncertainty_ratio, is_uncertain,
    tool_response,
    result,                 \* the returned dictionary
    provider_log,           \* the provider's view: requests in order, with outcomes
    stages,  \* the stages of the method in the order it entered them
    formatted,  \* the text format_results returned
    calls,  \* measure_uncertainty calls made on this measurer, this one included
    conversation_history,  \* LLMFunctionInterface.conversation_history
    self_uncertainty_threshold,  \* LLMFunctionInterface.uncertainty_threshold
    measure_calls,  \* the measure_uncertainty calls of the interface, with their arguments
    processed,  \* process_user_message calls made
    process_outcome   \* how the last process_user_message call ended

vars == <<pc, prompt, num_samples, uncertainty_threshold, i, responses, all_logprobs,
          answer_mean_logprob, phrase_idx, phrase_logprobs, uncertainty_phrase_mean,
          uncertainty_ratio, is_uncertain, tool_response, result, provider_log,
          stages, formatted, calls, conversation_history, self_uncertainty_threshold,
          measure_calls, processed, process_outcome>>

\* The calls a caller makes on one measurer, and their arguments.
MaxCalls == 2
RepeatSampleCounts == { 1, 2 }
RepeatThresholds == { Rat(1, 1) }

\* The state outside one measure_uncertainty call.
outside == <<formatted, calls, conversation_history, self_uncertainty_threshold,
             measure_calls, processed, process_outcome>>

Prompts == { "What is the capital of France?" }

Init ==
    /\ pc = "sample"
    /\ prompt \in Prompts
    /\ num_samples \in 1..MaxSamples
    /\ uncertainty_threshold \in Thresholds
    /\ i = 0
    /\ responses = <<>>
    /\ all_logprobs = <<>>
    /\ answer_mean_logprob = Zero
    /\ phrase_idx = 1
    /\ phrase_logprobs = EmptyDict
    /\ uncertainty_phrase_mean = Zero
    /\ uncertainty_ratio = Zero
    /\ is_uncertain = FALSE
    /\ tool_response = <<>>
    /\ result = EmptyDict
    /\ provider_log = <<>>
    /\ stages = <<>>
    /\ formatted = ""
    /\ calls = 1
    /\ conversation_history = <<>>
    /\ self_uncertainty_threshold = Rat(1, 1)
    /\ measure_calls = <<>>
    /\ processed = 0
    /\ process_outcome = "none"

Logged(kind, index, o) == [kind |-> kind, index |-> index, outcome |-> o]

\* The stage log after a statement of stage s has run.
Enter(st, s) == IF Len(st) > 0 /\ st[Len(st)] = s THEN st ELSE Append(st, s)

\* Variant: the loop runs while i <= num_samples.
RangeHasNextInclusive(k, n) == k <= n

\* "for i in range(num_samples)" has a next iteration after k iterations.
RangeHasNext(k, n) == k < n

\* One iteration of "for i in range(num_samples)" (lines 64-89).
SampleRequest ==
    /\ pc = "sample"
    /\ RangeHasNext(i, num_samples)
    /\ stages' = Enter(stages, "Sample")
    /\ \E o \in {Raises} \cup SampleCompletions :
         LET r == SampleTry(responses, all_logprobs, o)
         IN  /\ provider_log' = Append(provider_log, Logged("sample", i + 1, o))
             /\ responses' = r.responses
             /\ all_logprobs' = r.all_logprobs
             /\ i' = i + 1
             /\ pc' = IF r.raised THEN "raised" ELSE "sample"
    /\ UNCHANGED <<prompt, num_samples, uncertainty_threshold, answer_mean_logprob,
                   phrase_idx, phrase_logprobs, uncertainty_phrase_mean,
                   uncertainty_ratio, is_uncertain, tool_response, result>>
    /\ UNCHANGED outside

\* Variant: a map computed by an earlier call is reused, no phrase requested.
BeginPhraseLogprobsCached(d) ==
    IF d # EmptyDict
    THEN [phrase_logprobs |-> d, phrase_idx |-> Len(uncertainty_phrases) + 1]
    ELSE [phrase_logprobs |-> EmptyDict, phrase_idx |-> 1]

\* Lines 267-269: _get_phrase_logprobs starts from an empty map at the first
\* phrase, whatever map d an earlier call has computed.
BeginPhraseLogprobs(d) == [phrase_logprobs |-> EmptyDict, phrase_idx |-> 1]

\* Line 92, after the loop, and the entry into _get_phrase_logprobs (line 97).
CalculateAnswerMean ==
    /\ pc = "sample"
    /\ ~RangeHasNext(i, num_samples)
    /\ stages' = Enter(stages, "Evaluate")
    /\ answer_mean_logprob' = _calculate_mean_logprob(all_logprobs)
    /\ phrase_logprobs' = BeginPhraseLogprobs(phrase_logprobs).phrase_logprobs
    /\ phrase_idx' = BeginPhraseLogprobs(phrase_logprobs).phrase_idx
    /\ pc' = "phrases"
    /\ UNCHANGED <<prompt, num_samples, uncertainty_threshold, i, responses, all_logprobs,
                   uncertainty_phrase_mean, uncertainty_ratio, is_uncertain,
                   tool_response, result, provider_log>>
    /\ UNCHANGED outside

\* One iteration of the loop of _get_phrase_logprobs (lines 269-289).
PhraseRequest ==
    /\ pc = "phrases"
    /\ phrase_idx <= Len(uncertainty_phrases)
    /\ stages' = Enter(stages, "Evaluate")
    /\ \E o \in {Raises} \cup PhraseCompletions :
         LET r == PhraseTry(phrase_logprobs, uncertainty_phrases[phrase_idx], o)
         IN  /\ provider_log' = Append(provider_log, Logged("phrase", phrase_idx, o))
             /\ phrase_logprobs' = r.phrase_logprobs
             /\ phrase_idx' = phrase_idx + 1
             /\ pc' = IF r.raised THEN "raised" ELSE "phrases"
    /\ UNCHANGED <<prompt, num_samples, uncertainty_threshold, i, responses, all_logprobs,
                   answer_mean_logprob, uncertainty_phrase_mean, uncertainty_ratio,
                   is_uncertain, tool_response, result>>
    /\ UNCHANGED outside

\* Lines 100-112: the phrase mean, the ratio and the verdict.
Evaluate ==
    /\ pc = "phrases"
    /\ phrase_idx > Len(uncertainty_phrases)
    /\ stages' = Enter(stages, "Evaluate")
    /\ uncertainty_phrase_mean' = PhraseMean(phrase_logprobs)
    /\ uncertainty_ratio' = UncertaintyRatio(uncertainty_phrase_mean', answer_mean_logprob)
    /\ is_uncertain' = IsUncertain(uncertainty_ratio', uncertainty_threshold)
    /\ pc' = "respond"
    /\ UNCHANGED <<prompt, num_samples, uncertainty_threshold, i, responses, all_logprobs,
                   answer_mean_logprob, phrase_idx, phrase_logprobs, tool_response,
                   result, provider_log>>
    /\ UNCHANGED outside

\* Line 122: the fallback-generation request.
GenerateRequest ==
    /\ pc = "respond"
    /\ is_uncertain
    /\ stages' = Enter(stages, "Generate")
    /\ \E o \in {Raises} \cup GenerateCompletions :
         LET r == _generate_uncertainty_message(o)
         IN  /\ provider_log' = Append(provider_log, Logged("generate", 1, o))
             /\ tool_response' = r.message
             /\ pc' = IF r.raised THEN "raised" ELSE "analyze"
    /\ UNCHANGED <<prompt, num_samples, uncertainty_threshold, i, responses, all_logprobs,
                   answer_mean_logprob, phrase_idx, phrase_logprobs,
                   uncertainty_phrase_mean, uncertainty_ratio, is_uncertain, result>>
    /\ UNCHANGED outside

\* Lines 125-126.
SelectAnswer ==
    /\ pc = "respond"
    /\ ~is_uncertain
    /\ stages' = Enter(stages, "Select")
    /\ tool_response' = SelectResponse(responses)
    /\ pc' = "analyze"
    /\ UNCHANGED <<prompt, num_samples, uncertainty_threshold, i, responses, all_logprobs,
                   answer_mean_logprob, phrase_idx, phrase_logprobs,
                   uncertainty_phrase_mean, uncertainty_ratio, is_uncertain, result,
                   provider_log>>
    /\ UNCHANGED outside

\* Lines 129-145: the analysis and the returned dictionary.
Return ==
    /\ pc = "analyze"
    /\ stages' = Enter(stages, "Aggregate")
    /\ result' = [prompt |-> prompt,
                  num_samples |-> num_samples,
                  responses |-> responses,
                  logprobs |-> all_logprobs,
                  uncertainty_analysis |->
                      FinalAnalysis(responses, all_logprobs, answer_mean_logprob,
                                    phrase_logprobs, uncertainty_phrase_mean,
                                    uncertainty_ratio, uncertainty_threshold, is_uncertain),
                  is_uncertain |-> is_uncertain,
                  tool_response |-> tool_response]
    /\ pc' = "done"
    /\ UNCHANGED <<prompt, num_samples, uncertainty_threshold, i, responses, all_logprobs,
                   answer_mean_logprob, phrase_idx, phrase_logprobs,
                   uncertainty_phrase_mean, uncertainty_ratio, is_uncertain,
                   tool_response, provider_log>>
    /\ UNCHANGED outside

\* The caller calls measure_uncertainty again on the same measurer (lines
\* 32-62): new arguments, empty lists; provider_log and stages are those of
\* the new call. The map the earlier call computed is left where it was.
CallAgain ==
    /\ pc = "done"
    /\ calls < MaxCalls
    /\ calls' = calls + 1
    /\ pc' = "sample"
    /\ prompt' \in Prompts
    /\ num_samples' \in RepeatSampleCounts
    /\ uncertainty_threshold' \in RepeatThresholds
    /\ i' = 0
    /\ responses' = <<>>
    /\ all_logprobs' = <<>>
    /\ answer_mean_logprob' = Zero
    /\ uncertainty_phrase_mean' = Zero
    /\ uncertainty_ratio' = Zero
    /\ is_uncertain' = FALSE
    /\ tool_response' = <<>>
    /\ result' = EmptyDict
    /\ provider_log' = <<>>
    /\ stages' = <<>>
    /\ UNCHANGED <<phrase_idx, phrase_logprobs, formatted>>
    /\ UNCHANGED <<conversation_history, self_uncertainty_threshold, measure_calls,
                   processed, process_outcome>>

Next ==
    \/ SampleRequest
    \/ CalculateAnswerMean
    \/ PhraseRequest
    \/ Evaluate
    \/ GenerateRequest
    \/ SelectAnswer
    \/ Return

Spec == Init /\ [][Next]_vars

(***************************************************************************)
(* The provider's side of a run, read off provider_log, for stating the    *)
(* properties independently of the method's own locals.                    *)
(***************************************************************************)
SampleLog == SelectSeq(provider_log, LAMBDA e : e.kind = "sample")
PhraseLog == SelectSeq(provider_log, LAMBDA e : e.kind = "phrase")
GenerateLog == SelectSeq(provider_log, LAMBDA e : e.kind = "generate")

LoopEnded == pc \in {"phrases", "respond", "analyze", "done"}
Evaluated == pc \in {"respond", "analyze", "done"}
AllSamplesFailed == \A k \in 1..Len(SampleLog) : ~SampleLog[k].outcome.ok

\* The tokens a returned completion carries, and those with a log-probability.
TokensOf(o) ==
    IF o.ok /\ o.logprobs # None /\ Get(o.logprobs).content # None
    THEN Get(Get(o.logprobs).content)
    ELSE <<>>
Scored(tokens) == { k \in 1..Len(tokens) : tokens[k].logprob # None }

RECURSIVE SumScored(_, _)
SumScored(tokens, S) ==
    IF S = {} THEN Zero
    ELSE LET k == CHOOSE x \in S : TRUE
         IN  RAdd(Get(tokens[k].logprob), SumScored(tokens, S \ {k}))

\* Sum and number of the scored tokens of all completions of a log.
RECURSIVE LogTokenSum(_)
LogTokenSum(log) ==
    IF Len(log) = 0 THEN Zero
    ELSE RAdd(SumScored(TokensOf(Head(log).outcome), Scored(TokensOf(Head(log).outcome))),
              LogTokenSum(Tail(log)))
RECURSIVE LogTokenCount(_)
LogTokenCount(log) ==
    IF Len(log) = 0 THEN 0
    ELSE Cardinality(Scored(TokensOf(Head(log).outcome))) + LogTokenCount(Tail(log))

\* x = s / c as rationals, for c > 0
IsQuotient(x, s, c) == x.d # 0 /\ x.n * s.d * c = s.n * x.d

(***************************************************************************)
(* C1: for every num_samples >= 1 and every pattern of provider failures,  *)
(* when the sampling loop has ended exactly num_samples sampling requests  *)
(* were issued, responses and all_logprobs have length num_samples, and    *)
(* position k holds the outcome of the k-th request: its text and          *)
(* log-probabilities on success, None and None on failure.                 *)
(***************************************************************************)
C1_SampleSetComplete ==
    LoopEnded =>
        /\ Len(SampleLog) = num_samples
        /\ Len(responses) = num_samples
        /\ Len(all_logprobs) = num_samples
        /\ \A k \in 1..num_samples :
             /\ SampleLog[k].index = k
             /\ IF SampleLog[k].outcome.ok
                THEN /\ responses[k] = SampleLog[k].outcome.text
                     /\ all_logprobs[k] = SampleLog[k].outcome.logprobs
                ELSE /\ responses[k] = None
                     /\ all_logprobs[k] = None

\* A failed request followed by a successful one, both recorded.
C1_Witness ==
    /\ pc = "phrases"
    /\ num_samples = 2
    /\ ~SampleLog[1].outcome.ok
    /\ SampleLog[2].outcome.ok
    /\ responses = <<None, Some("Paris")>>

(***************************************************************************)
(* C2: whatever subset of the sampling, reference-phrase and fallback      *)
(* requests fails, no exception leaves measure_uncertainty: the call is    *)
(* always at one of its statements (each of which can be executed) or has  *)
(* returned, and what it returns is the result dictionary.                 *)
(***************************************************************************)
ResultKeys ==
    {"prompt", "num_samples", "responses", "logprobs", "uncertainty_analysis",
     "is_uncertain", "tool_response"}

C2_NeverRaises ==
    /\ pc # "raised"
    /\ pc \in {"sample", "phrases", "respond", "analyze", "done"}
    /\ pc = "done" => DOMAIN result = ResultKeys

\* A call in which every request failed, the fallback request included.
C2_Witness ==
    /\ pc = "done"
    /\ \A k \in 1..Len(provider_log) : ~provider_log[k].outcome.ok
    /\ Len(SampleLog) = 2
    /\ Len(PhraseLog) = 3
    /\ Len(GenerateLog) = 1

(***************************************************************************)
(* C3: when every sampling request failed, the returned analysis is the    *)
(* error state: it has the error field and uncertainty_level "unknown",    *)
(* and the call returns it (no exception).                                 *)
(***************************************************************************)
C3_AllFailedIsErrorState ==
    /\ AllSamplesFailed => pc # "raised"
    /\ (pc = "done" /\ AllSamplesFailed) =>
          /\ "error" \in DOMAIN result.uncertainty_analysis
          /\ result.uncertainty_analysis.error = "No valid responses received"
          /\ result.uncertainty_analysis.uncertainty_level = "unknown"

C3_Witness ==
    /\ pc = "done"
    /\ num_samples = 2
    /\ AllSamplesFailed
    /\ result.uncertainty_analysis.uncertainty_level = "unknown"

(***************************************************************************)
(* C4: when every sampling request failed, the returned analysis holds     *)
(* none of answer_mean_logprob, uncertainty_phrase_mean_logprob,           *)
(* uncertainty_ratio, uncertainty_threshold, is_uncertain next to the      *)
(* error field and the "unknown" level. (Stated as claimed; lines 130-135  *)
(* add these fields to every analysis.)                                    *)
(***************************************************************************)
RatioFields ==
    {"answer_mean_logprob", "uncertainty_phrase_mean_logprob", "uncertainty_ratio",
     "uncertainty_threshold", "is_uncertain"}

C4_ErrorAnalysisHasNoRatioFields ==
    (pc = "done" /\ AllSamplesFailed) =>
        DOMAIN result.uncertainty_analysis \cap RatioFields = {}

(***************************************************************************)
(* C5: when every sampling request failed, no reference-phrase request and *)
(* no fallback-generation request is issued after the last sampling        *)
(* request, for every threshold. (Stated as claimed; the method goes on to *)
(* line 97 whatever the samples were.)                                     *)
(***************************************************************************)
C5_AllFailedShortCircuits ==
    (Len(SampleLog) = num_samples /\ AllSamplesFailed) =>
        /\ Len(PhraseLog) = 0
        /\ Len(GenerateLog) = 0

\* The fallback request too is issued after a total failure, at a negative threshold.
C5_FallbackAfterTotalFailure ==
    ~(/\ AllSamplesFailed
      /\ Len(SampleLog) = num_samples
      /\ Len(GenerateLog) = 1
      /\ RLt(uncertainty_threshold, Zero))

(***************************************************************************)
(* C6: whenever the mean log-probability of the sampled answers (over all  *)
(* scored tokens of all returned samples) is non-zero, the ratio is the    *)
(* mean of the per-phrase means divided by it; answers at -0.05 per token  *)
(* and phrases at -2.0 per token give ratio 40 and is_uncertain at         *)
(* threshold 1.0.                                                          *)
(***************************************************************************)
\* Mean log-probability of one phrase's completion; 0 on failure or no tokens.
PhraseLogMean(e) ==
    LET toks == TokensOf(e.outcome)
    IN  IF Scored(toks) = {} THEN Zero
        ELSE RDivInt(SumScored(toks, Scored(toks)), Cardinality(Scored(toks)))

RECURSIVE SumPhraseMeans(_)
SumPhraseMeans(log) ==
    IF Len(log) = 0 THEN Zero ELSE RAdd(PhraseLogMean(Head(log)), SumPhraseMeans(Tail(log)))

\* The two means as the provider's data gives them.
ProviderAnswerMean ==
    IF LogTokenCount(SampleLog) = 0 THEN Zero
    ELSE RDivInt(LogTokenSum(SampleLog), LogTokenCount(SampleLog))
ProviderPhraseMean == RDivInt(SumPhraseMeans(PhraseLog), Len(uncertainty_phrases))

AnswersAt(x) ==
    \A k \in 1..Len(SampleLog) :
        /\ SampleLog[k].outcome.ok
        /\ Scored(TokensOf(SampleLog[k].outcome)) # {}
        /\ \A t \in Scored(TokensOf(SampleLog[k].outcome)) :
              TokensOf(SampleLog[k].outcome)[t].logprob = Some(x)
PhrasesAt(x) ==
    \A k \in 1..Len(PhraseLog) :
        /\ PhraseLog[k].outcome.ok
        /\ Scored(TokensOf(PhraseLog[k].outcome)) # {}
        /\ \A t \in Scored(TokensOf(PhraseLog[k].outcome)) :
              TokensOf(PhraseLog[k].outcome)[t].logprob = Some(x)

C6_RatioIsPhraseOverAnswer ==
    Evaluated =>
        /\ ProviderAnswerMean # Zero =>
              /\ ~IsInf(uncertainty_ratio)
              /\ RMul(uncertainty_ratio, ProviderAnswerMean) = ProviderPhraseMean
        /\ (AnswersAt(Rat(-1, 20)) /\ PhrasesAt(Rat(-2, 1))) =>
              /\ uncertainty_ratio = Rat(40, 1)
              /\ uncertainty_threshold = Rat(1, 1) => is_uncertain

C6_Witness ==
    /\ pc = "done"
    /\ AnswersAt(Rat(-1, 20))
    /\ PhrasesAt(Rat(-2, 1))
    /\ uncertainty_threshold = Rat(1, 1)
    /\ uncertainty_ratio = Rat(40, 1)
    /\ result.is_uncertain

(***************************************************************************)
(* C7: is_uncertain is true exactly when the ratio is strictly greater     *)
(* than the caller's threshold (equal is CONFIDENT); the result carries    *)
(* the same value at the top level and in the analysis; with answers at    *)
(* -1.8 and phrases at -2.0 the verdict is uncertain at threshold 1.0 and  *)
(* confident at threshold 1.2.                                             *)
(***************************************************************************)
StrictlyAbove(x, t) == IsInf(x) \/ x.n * t.d > t.n * x.d

C7_VerdictIsStrictComparison ==
    /\ Evaluated => (is_uncertain <=> StrictlyAbove(uncertainty_ratio, uncertainty_threshold))
    /\ pc = "done" =>
          /\ result.is_uncertain = is_uncertain
          /\ result.uncertainty_analysis.is_uncertain = is_uncertain
          /\ result.uncertainty_analysis.uncertainty_threshold = uncertainty_threshold
    /\ (Evaluated /\ AnswersAt(Rat(-9, 5)) /\ PhrasesAt(Rat(-2, 1))) =>
          /\ uncertainty_threshold = Rat(1, 1) => is_uncertain
          /\ uncertainty_threshold = Rat(6, 5) => ~is_uncertain

\* A ratio equal to the threshold, reported CONFIDENT.
C7_Witness ==
    /\ pc = "done"
    /\ uncertainty_ratio = uncertainty_threshold
    /\ ProviderAnswerMean # Zero
    /\ ~result.is_uncertain
    /\ ~result.uncertainty_analysis.is_uncertain

(***************************************************************************)
(* C8: for negative answer and phrase means, a ratio greater than 1 means  *)
(* the answer mean is lower than the phrase mean, so answers at -0.05 with *)
(* phrases at -2.0 and threshold 1.0 are classified CONFIDENT. (Stated as  *)
(* claimed; phrase/answer > 1 with both negative means phrase < answer.)   *)
(***************************************************************************)
C8_RatioAboveOneMeansAnswerLessConfident ==
    (/\ Evaluated
     /\ RLt(ProviderAnswerMean, Zero)
     /\ RLt(ProviderPhraseMean, Zero)) =>
        /\ RGt(uncertainty_ratio, Rat(1, 1)) => RLt(ProviderAnswerMean, ProviderPhraseMean)
        /\ (/\ AnswersAt(Rat(-1, 20))
            /\ PhrasesAt(Rat(-2, 1))
            /\ uncertainty_threshold = Rat(1, 1)) => ~is_uncertain

(***************************************************************************)
(* C9: when the answer mean log-probability is exactly 0 (answer tokens    *)
(* all at 0.0, or none), the ratio is 0.0 if the phrase mean is negative   *)
(* or zero and +infinity if it is positive.                                *)
(***************************************************************************)
C9_ZeroAnswerMeanRatio ==
    (Evaluated /\ ProviderAnswerMean = Zero) =>
        uncertainty_ratio =
            IF ProviderPhraseMean.n > 0 THEN Inf ELSE Zero

\* Answer tokens all at 0.0 and a positive phrase mean: the ratio is +infinity.
C9_Witness ==
    /\ pc = "done"
    /\ AnswersAt(Zero)
    /\ ProviderPhraseMean.n > 0
    /\ IsInf(uncertainty_ratio)
    /\ result.is_uncertain

(***************************************************************************)
(* C10: for every pattern of phrase-request failures, one request per      *)
(* configured phrase is issued in order, the phrase map has exactly the    *)
(* configured phrases as keys, a failed phrase maps to 0.0 and a returned  *)
(* one to the mean over its own tokens, and the phrase mean is the sum of  *)
(* the per-phrase means over the number of configured phrases.             *)
(***************************************************************************)
C10_PhraseMapAndTwoLevelMean ==
    Evaluated =>
        /\ Len(PhraseLog) = Len(uncertainty_phrases)
        /\ DOMAIN phrase_logprobs = { uncertainty_phrases[k] : k \in 1..Len(uncertainty_phrases) }
        /\ \A k \in 1..Len(uncertainty_phrases) :
              /\ PhraseLog[k].index = k
              /\ ~PhraseLog[k].outcome.ok => phrase_logprobs[uncertainty_phrases[k]] = Zero
              /\ phrase_logprobs[uncertainty_phrases[k]] = PhraseLogMean(PhraseLog[k])
        /\ IsQuotient(uncertainty_phrase_mean, SumPhraseMeans(PhraseLog),
                      Len(uncertainty_phrases))

\* First phrase failed, the later two requested; the two-level mean
\* (0 - 2 - 3/4) / 3 differs from the token mean (-2 - 1 - 1/2) / 3.
C10_Witness ==
    /\ pc = "done"
    /\ ~PhraseLog[1].outcome.ok
    /\ PhraseLog[2].outcome.ok /\ PhraseLog[3].outcome.ok
    /\ phrase_logprobs["I'm not sure"] = Zero
    /\ uncertainty_phrase_mean = Rat(-11, 12)
    /\ LogTokenSum(PhraseLog) = Rat(-7, 2)
    /\ LogTokenCount(PhraseLog) = 3

(***************************************************************************)
(* C11: when the verdict is uncertain and the fallback-generation request  *)
(* fails, no exception leaves the call: tool_response is the fixed generic *)
(* clarification string, and the verdict and the analysis in the result    *)
(* are the ones computed before the request (uncertain, with the ratio     *)
(* fields of that evaluation).                                             *)
(***************************************************************************)
FallbackFailed == Len(GenerateLog) = 1 /\ ~GenerateLog[1].outcome.ok

C11_FallbackFailureGivesGenericMessage ==
    /\ FallbackFailed => pc \in {"analyze", "done"}
    /\ (FallbackFailed /\ pc = "done") =>
          /\ result.tool_response =
                <<"I'm unsure about how to answer this question accurately. Could you please provide more information or clarify your question?">>
          /\ result.is_uncertain
          /\ result.uncertainty_analysis.is_uncertain
          /\ StrictlyAbove(uncertainty_ratio, uncertainty_threshold)
          /\ result.uncertainty_analysis.uncertainty_ratio = Round(uncertainty_ratio, 4)
          /\ result.uncertainty_analysis.uncertainty_level \in {"low", "medium", "high", "unknown"}
          /\ result.responses = responses

\* Samples and phrases returned, uncertain at threshold 1.0, the fallback request failed.
C11_Witness ==
    /\ pc = "done"
    /\ FallbackFailed
    /\ AnswersAt(Rat(-1, 20))
    /\ PhrasesAt(Rat(-2, 1))
    /\ result.tool_response = GenericMessage
    /\ result.uncertainty_analysis.uncertainty_level = "high"

(***************************************************************************)
(* C12: when the verdict is not uncertain and at least one sample returned *)
(* a text, tool_response is exactly the text of the sample with the lowest *)
(* request index among those that returned one, whatever failed entries    *)
(* precede it, and no generation request is issued. (A sample counts as    *)
(* successful when its entry in responses is a text; a completion returned *)
(* without content leaves None there like a failed request.)               *)
(***************************************************************************)
WithText == { k \in 1..Len(SampleLog) :
                SampleLog[k].outcome.ok /\ SampleLog[k].outcome.text # None }
FirstWithText == CHOOSE k \in WithText : \A j \in WithText : k <= j

NumPhrases == Len(uncertainty_phrases)

C13_RequestSequence ==
    /\ Len(provider_log) <= num_samples + NumPhrases + 1
    /\ \A k \in 1..Len(provider_log) :
          IF k <= num_samples
          THEN provider_log[k].kind = "sample" /\ provider_log[k].index = k
          ELSE IF k <= num_samples + NumPhrases
          THEN provider_log[k].kind = "phrase" /\ provider_log[k].index = k - num_samples
          ELSE provider_log[k].kind = "generate" /\ StrictlyAbove(uncertainty_ratio, uncertainty_threshold)
    /\ pc = "done" =>
          Len(provider_log) =
              num_samples + NumPhrases +
              (IF StrictlyAbove(uncertainty_ratio, uncertainty_threshold) THEN 1 ELSE 0)

\* A failed sampling request and a failed phrase request, each followed by
\* the next request, and the generation request last.
C13_Witness ==
    /\ pc = "done"
    /\ num_samples = 2
    /\ Len(provider_log) = 6
    /\ ~provider_log[1].outcome.ok /\ provider_log[2].outcome.ok
    /\ ~provider_log[3].outcome.ok /\ provider_log[4].outcome.ok
    /\ provider_log[6].kind = "generate"

RECURSIVE SumScoredPow2(_, _)
SumScoredPow2(tokens, S) ==
    IF S = {} THEN Zero
    ELSE LET k == CHOOSE x \in S : TRUE
         IN  RAdd(Pow2(Get(tokens[k].logprob)), SumScoredPow2(tokens, S \ {k}))

RECURSIVE LogPow2Sum(_)
LogPow2Sum(log) ==
    IF Len(log) = 0 THEN Zero
    ELSE RAdd(SumScoredPow2(TokensOf(Head(log).outcome), Scored(TokensOf(Head(log).outcome))),
              LogPow2Sum(Tail(log)))

ProviderConfidence ==
    IF LogTokenCount(SampleLog) = 0 THEN Zero
    ELSE RDivInt(LogPow2Sum(SampleLog), LogTokenCount(SampleLog))

Failed == { k \in 1..Len(SampleLog) : ~SampleLog[k].outcome.ok }

C15_FailedSamplesExcluded ==
    pc = "done" =>
        /\ Len(result.responses) = num_samples
        /\ Len(result.logprobs) = num_samples
        /\ \A k \in Failed : result.responses[k] = None /\ result.logprobs[k] = None
        /\ \A k \in WithText : result.responses[k] = SampleLog[k].outcome.text
        /\ WithText = {} => "total_samples" \notin DOMAIN result.uncertainty_analysis
        /\ WithText # {} =>
              /\ result.uncertainty_analysis.total_samples = Cardinality(WithText)
              /\ result.uncertainty_analysis.unique_responses =
                    Cardinality({ SampleLog[k].outcome.text : k \in WithText })
              /\ result.uncertainty_analysis.average_token_confidence =
                    Round(ProviderConfidence, 3)

\* One failed and one successful sample: one sample counted, the failure kept in place.
C15_Witness ==
    /\ pc = "done"
    /\ Failed = {1}
    /\ WithText = {2}
    /\ result.responses[1] = None
    /\ result.uncertainty_analysis.total_samples = 1
    /\ result.uncertainty_analysis.unique_responses = 1
    /\ result.uncertainty_analysis.average_token_confidence = Rat(1, 4)

(***************************************************************************)
(* _analyze_uncertainty called on its own, as the tests call it: on every  *)
(* list of up to MaxTexts responses, each None or one of TextInputs, with  *)
(* a logprobs entry for each response that is not None.                    *)
(***************************************************************************)
MaxTexts == 5

TextInputs == { "Paris", "paris", "Paris ", "Lyon", "Nice" }

DiversityInit ==
    /\ pc = "texts"
    /\ prompt \in Prompts
    /\ num_samples = 0
    /\ uncertainty_threshold = Rat(1, 1)
    /\ i = 0
    /\ responses = <<>>
    /\ all_logprobs = <<>>
    /\ answer_mean_logprob = Zero
    /\ phrase_idx = 1
    /\ phrase_logprobs = EmptyDict
    /\ uncertainty_phrase_mean = Zero
    /\ uncertainty_ratio = Zero
    /\ is_uncertain = FALSE
    /\ tool_response = <<>>
    /\ result = EmptyDict
    /\ provider_log = <<>>
    /\ stages = <<>>
    /\ formatted = ""
    /\ calls = 1
    /\ conversation_history = <<>>
    /\ self_uncertainty_threshold = Rat(1, 1)
    /\ measure_calls = <<>>
    /\ processed = 0
    /\ process_outcome = "none"

\* The caller extends the argument lists by one entry.
AddResponse ==
    /\ pc = "texts"
    /\ Len(responses) < MaxTexts
    /\ \E t \in {None} \cup { Some(x) : x \in TextInputs } :
         /\ responses' = Append(responses, t)
         /\ all_logprobs' = Append(all_logprobs,
                                   IF t = None THEN None ELSE LPObj(<<Tok(Rat(-1, 1))>>))
    /\ UNCHANGED <<pc, prompt, num_samples, uncertainty_threshold, i, answer_mean_logprob,
                   phrase_idx, phrase_logprobs, uncertainty_phrase_mean,
                   uncertainty_ratio, is_uncertain, tool_response, result, provider_log,
                   stages>>
    /\ UNCHANGED outside

\* The call _analyze_uncertainty(responses, logprobs_data).
AnalyzeResponses ==
    /\ pc = "texts"
    /\ result' = [uncertainty_analysis |-> _analyze_uncertainty(responses, all_logprobs)]
    /\ pc' = "analyzed"
    /\ UNCHANGED <<prompt, num_samples, uncertainty_threshold, i, responses, all_logprobs,
                   answer_mean_logprob, phrase_idx, phrase_logprobs,
                   uncertainty_phrase_mean, uncertainty_ratio, is_uncertain,
                   tool_response, provider_log, stages>>
    /\ UNCHANGED outside

DiversityNext == AddResponse \/ AnalyzeResponses

DiversitySpec == DiversityInit /\ [][DiversityNext]_vars

\* The valid texts of the argument: how many, and how many different ones
\* (two texts are the same when they are the same string).
ValidIdx == { k \in 1..Len(responses) : responses[k] # None }
totalCount == Cardinality(ValidIdx)
uniqueCount == Cardinality({ responses[k] : k \in ValidIdx })
Analyzed == pc = "analyzed" /\ totalCount >= 1

(***************************************************************************)
(* C16: for totalCount >= 1 the level is decided by uniqueCount/totalCount *)
(* with inclusive lower bounds: "high" iff it is >= 0.8, "medium" iff it   *)
(* is >= 0.4 and < 0.8, "low" iff it is < 0.4 (4/5 is high, 2/5 is         *)
(* medium); uniqueness is exact string equality.                           *)
(***************************************************************************)
C16_LevelThresholds ==
    Analyzed =>
        LET level == result.uncertainty_analysis.uncertainty_level
        IN  /\ result.uncertainty_analysis.unique_responses = uniqueCount
            /\ result.uncertainty_analysis.total_samples = totalCount
            /\ level = "high" <=> 10 * uniqueCount >= 8 * totalCount
            /\ level = "medium" <=> /\ 10 * uniqueCount >= 4 * totalCount
                                    /\ 10 * uniqueCount < 8 * totalCount
            /\ level = "low" <=> 10 * uniqueCount < 4 * totalCount

\* Exactly 4/5, with texts that differ only in case or trailing blank: high.
C16_Witness ==
    /\ pc = "analyzed"
    /\ responses = <<Some("Paris"), Some("paris"), Some("Paris "), Some("Lyon"), Some("Paris")>>
    /\ result.uncertainty_analysis.unique_responses = 4
    /\ result.uncertainty_analysis.uncertainty_level = "high"

\* Exactly 2/5: medium.
C16_WitnessMedium ==
    /\ pc = "analyzed"
    /\ totalCount = 5 /\ uniqueCount = 2
    /\ result.uncertainty_analysis.uncertainty_level = "medium"

AllIdentical == Analyzed /\ uniqueCount = 1
AllDistinct == Analyzed /\ uniqueCount = totalCount /\ totalCount >= 2

(***************************************************************************)
(* C17 as stated: when every valid sample has the same text, the reported  *)
(* unique count is 1, the reported diversity ratio equals 1/totalCount and *)
(* the level is "low" whenever totalCount >= 3.  Violated: the reported    *)
(* ratio of three identical texts is 0.333, not 1/3.                       *)
(***************************************************************************)
C17_ReportedRatioIsExactQuotient ==
    AllIdentical =>
        /\ result.uncertainty_analysis.unique_responses = 1
        /\ result.uncertainty_analysis.response_diversity = Rat(1, totalCount)
        /\ totalCount >= 3 => result.uncertainty_analysis.uncertainty_level = "low"

(***************************************************************************)
(* C17 amended: when every valid sample has the same text, the reported    *)
(* unique count is 1, the reported diversity ratio equals 1/totalCount     *)
(* rounded to three decimals, and the level is "low" whenever              *)
(* totalCount >= 3 (and "medium" for two, "high" for one).                 *)
(***************************************************************************)
C17_IdenticalTexts ==
    AllIdentical =>
        /\ result.uncertainty_analysis.unique_responses = 1
        /\ result.uncertainty_analysis.total_samples = totalCount
        /\ result.uncertainty_analysis.response_diversity = Round(Rat(1, totalCount), 3)
        /\ totalCount >= 3 => result.uncertainty_analysis.uncertainty_level = "low"
        /\ totalCount = 2 => result.uncertainty_analysis.uncertainty_level = "medium"
        /\ totalCount = 1 => result.uncertainty_analysis.uncertainty_level = "high"

\* Three identical texts and a failed sample: reported 0.333, level low.
C17_Witness ==
    /\ AllIdentical
    /\ totalCount = 3
    /\ Len(responses) = 4
    /\ result.uncertainty_analysis.response_diversity = Rat(333, 1000)
    /\ result.uncertainty_analysis.response_diversity # Rat(1, 3)
    /\ result.uncertainty_analysis.uncertainty_level = "low"

(***************************************************************************)
(* C18: when every valid sample has a distinct text and totalCount >= 2,   *)
(* the unique count equals totalCount, the diversity ratio is 1.0 and the  *)
(* level is "high".                                                        *)
(***************************************************************************)
C18_DistinctTexts ==
    AllDistinct =>
        /\ result.uncertainty_analysis.unique_responses = totalCount
        /\ result.uncertainty_analysis.response_diversity = Rat(1, 1)
        /\ result.uncertainty_analysis.uncertainty_level = "high"

\* Texts that differ only in case or in a trailing blank are distinct.
C18_Witness ==
    /\ AllDistinct
    /\ responses = <<Some("Paris"), None, Some("paris"), Some("Paris ")>>
    /\ result.uncertainty_analysis.unique_responses = 3
    /\ result.uncertainty_analysis.response_diversity = Rat(1, 1)
    /\ result.uncertainty_analysis.uncertainty_level = "high"

(***************************************************************************)
(* The two aggregators called on their own, as the tests call them: on     *)
(* every list of up to MaxEntries logprobs entries drawn from              *)
(* LogprobInputs.                                                          *)
(***************************************************************************)
MaxEntries == 3

LogprobInputs ==
    { None,
      LPNoContent,
      LPObj(<<>>),
      LPObj(<<NullTok>>),
      LPObj(<<NullTok, NullTok>>),
      LPObj(<<Tok(Rat(-1, 1))>>),
      LPObj(<<Tok(Rat(-2, 1)), Tok(Rat(-3, 1))>>),
      LPObj(<<Tok(Rat(-1, 2)), NullTok>>),
      LPObj(<<Tok(Rat(-1, 1)), Tok(Rat(-3, 1))>>),
      LPObj(<<Tok(Zero), NullTok>>),
      LPObj(<<Tok(Rat(1, 1))>>) }

AggregateInit ==
    /\ pc = "logprobs"
    /\ prompt \in Prompts
    /\ num_samples = 0
    /\ uncertainty_threshold = Rat(1, 1)
    /\ i = 0
    /\ responses = <<>>
    /\ all_logprobs = <<>>
    /\ answer_mean_logprob = Zero
    /\ phrase_idx = 1
    /\ phrase_logprobs = EmptyDict
    /\ uncertainty_phrase_mean = Zero
    /\ uncertainty_ratio = Zero
    /\ is_uncertain = FALSE
    /\ tool_response = <<>>
    /\ result = EmptyDict
    /\ provider_log = <<>>
    /\ stages = <<>>
    /\ formatted = ""
    /\ calls = 1
    /\ conversation_history = <<>>
    /\ self_uncertainty_threshold = Rat(1, 1)
    /\ measure_calls = <<>>
    /\ processed = 0
    /\ process_outcome = "none"

\* The caller extends the argument list by one entry.
AddLogprobs ==
    /\ pc = "logprobs"
    /\ Len(all_logprobs) < MaxEntries
    /\ \E lp \in LogprobInputs : all_logprobs' = Append(all_logprobs, lp)
    /\ UNCHANGED <<pc, prompt, num_samples, uncertainty_threshold, i, responses,
                   answer_mean_logprob, phrase_idx, phrase_logprobs,
                   uncertainty_phrase_mean, uncertainty_ratio, is_uncertain,
                   tool_response, result, provider_log, stages>>
    /\ UNCHANGED outside

\* The calls _calculate_mean_logprob(all_logprobs) and
\* _calculate_average_confidence(all_logprobs).
Aggregate ==
    /\ pc = "logprobs"
    /\ answer_mean_logprob' = _calculate_mean_logprob(all_logprobs)
    /\ result' = [average_token_confidence |-> _calculate_average_confidence(all_logprobs)]
    /\ pc' = "aggregated"
    /\ UNCHANGED <<prompt, num_samples, uncertainty_threshold, i, responses, all_logprobs,
                   phrase_idx, phrase_logprobs, uncertainty_phrase_mean,
                   uncertainty_ratio, is_uncertain, tool_response, provider_log, stages>>
    /\ UNCHANGED outside

\* Entry b has the tokens of entry a at the same positions, none with a
\* smaller log-probability.
SamePositions(a, b) ==
    /\ IsNone(a) <=> IsNone(b)
    /\ ~IsNone(a) =>
         /\ IsNone(Get(a).content) <=> IsNone(Get(b).content)
         /\ ~IsNone(Get(a).content) =>
              LET ta == Get(Get(a).content)
                  tb == Get(Get(b).content)
              IN  /\ Len(ta) = Len(tb)
                  /\ \A j \in 1..Len(ta) : IsNone(ta[j].logprob) <=> IsNone(tb[j].logprob)
NotSmaller(a, b) ==
    /\ SamePositions(a, b)
    /\ ~IsNone(a) /\ ~IsNone(Get(a).content) =>
         LET ta == Get(Get(a).content)
             tb == Get(Get(b).content)
         IN  \A j \in 1..Len(ta) :
                 ~IsNone(ta[j].logprob) => RGe(Get(tb[j].logprob), Get(ta[j].logprob))

\* The caller replaces the argument list by one with the same token
\* positions and no smaller log-probability at any of them.
RaiseLogprobs ==
    /\ pc = "aggregated"
    /\ \E raised \in [1..Len(all_logprobs) -> LogprobInputs] :
         /\ \A k \in 1..Len(all_logprobs) : NotSmaller(all_logprobs[k], raised[k])
         /\ all_logprobs' = [k \in 1..Len(all_logprobs) |-> raised[k]]
    /\ pc' = "raised"
    /\ UNCHANGED <<prompt, num_samples, uncertainty_threshold, i, responses,
                   answer_mean_logprob, phrase_idx, phrase_logprobs,
                   uncertainty_phrase_mean, uncertainty_ratio, is_uncertain,
                   tool_response, result, provider_log, stages>>
    /\ UNCHANGED outside

\* The two aggregators called on the raised list; the confidence of the
\* list before it is kept beside the new one.
AggregateAgain ==
    /\ pc = "raised"
    /\ answer_mean_logprob' = _calculate_mean_logprob(all_logprobs)
    /\ result' = [average_token_confidence |-> _calculate_average_confidence(all_logprobs),
                  confidence_before |-> result.average_token_confidence]
    /\ pc' = "reaggregated"
    /\ UNCHANGED <<prompt, num_samples, uncertainty_threshold, i, responses, all_logprobs,
                   phrase_idx, phrase_logprobs, uncertainty_phrase_mean,
                   uncertainty_ratio, is_uncertain, tool_response, provider_log, stages>>
    /\ UNCHANGED outside

AggregateNext == AddLogprobs \/ Aggregate \/ RaiseLogprobs \/ AggregateAgain

AggregateSpec == AggregateInit /\ [][AggregateNext]_vars

\* The tokens of entry k of the argument list, and the sum of the scored
\* tokens' log-probabilities (of their 2^logprob) and their number over the
\* first k entries.
EntryTokens(k) == TokensOf(Completion(None, all_logprobs[k]))
RECURSIVE ListTokenSum(_)
ListTokenSum(k) ==
    IF k = 0 THEN Zero
    ELSE RAdd(SumScored(EntryTokens(k), Scored(EntryTokens(k))), ListTokenSum(k - 1))
RECURSIVE ListPow2Sum(_)
ListPow2Sum(k) ==
    IF k = 0 THEN Zero
    ELSE RAdd(SumScoredPow2(EntryTokens(k), Scored(EntryTokens(k))), ListPow2Sum(k - 1))
RECURSIVE ListTokenCount(_)
ListTokenCount(k) ==
    IF k = 0 THEN 0 ELSE Cardinality(Scored(EntryTokens(k))) + ListTokenCount(k - 1)
TotalTokens == ListTokenCount(Len(all_logprobs))

(***************************************************************************)
(* C19: the mean log-probability and the mean token confidence are flat    *)
(* means over all tokens of all valid samples: each equals the sum over    *)
(* every scored token of every sample (of logprob, of 2^logprob) divided   *)
(* by the total number of scored tokens; for samples with different token  *)
(* counts this is not the mean of the per-sample means.                    *)
(***************************************************************************)
C19_FlatMeans ==
    pc = "aggregated" /\ TotalTokens > 0 =>
        /\ answer_mean_logprob = RDivInt(ListTokenSum(Len(all_logprobs)), TotalTokens)
        /\ result.average_token_confidence
             = RDivInt(ListPow2Sum(Len(all_logprobs)), TotalTokens)
        /\ all_logprobs = <<LPObj(<<Tok(Rat(-1, 1))>>),
                            LPObj(<<Tok(Rat(-2, 1)), Tok(Rat(-3, 1))>>)>>
           => /\ answer_mean_logprob = Rat(-2, 1)
              /\ result.average_token_confidence = Rat(7, 24)

\* One sample of one token and one of two tokens: the flat means are -2 and
\* 7/24, the means of the per-sample means would be -7/4 and 11/32.
C19_Witness ==
    /\ pc = "aggregated"
    /\ all_logprobs = <<LPObj(<<Tok(Rat(-1, 1))>>),
                        LPObj(<<Tok(Rat(-2, 1)), Tok(Rat(-3, 1))>>)>>
    /\ answer_mean_logprob = Rat(-2, 1)
    /\ answer_mean_logprob # Rat(-7, 4)
    /\ result.average_token_confidence = Rat(7, 24)
    /\ result.average_token_confidence # Rat(11, 32)

(***************************************************************************)
(* C20: both aggregators return 0.0 whenever the input holds no scored     *)
(* token: the empty list, a list of only failed (None) samples, samples    *)
(* with an absent or empty token list, samples whose tokens all have a     *)
(* null log-probability.                                                   *)
(***************************************************************************)
C20_NoTokensGivesZero ==
    pc = "aggregated" /\ TotalTokens = 0 =>
        /\ answer_mean_logprob = Zero
        /\ result.average_token_confidence = Zero

\* The empty list.
C20_WitnessEmpty ==
    /\ pc = "aggregated"
    /\ all_logprobs = <<>>
    /\ answer_mean_logprob = Zero
    /\ result.average_token_confidence = Zero

\* A failed sample, a sample without tokens and a sample of null tokens.
C20_Witness ==
    /\ pc = "aggregated"
    /\ all_logprobs = <<None, LPObj(<<>>), LPObj(<<NullTok, NullTok>>)>>
    /\ answer_mean_logprob = Zero
    /\ result.average_token_confidence = Zero

\* The log-probabilities of the scored tokens of the argument list.
ScoredLogprobs ==
    { Get(EntryTokens(k)[j].logprob) :
        <<k, j>> \in { p \in (1..Len(all_logprobs)) \X (1..2) :
                         p[2] \in Scored(EntryTokens(p[1])) } }
AllNonPositive == \A lp \in ScoredLogprobs : ~RGt(lp, Zero)

(***************************************************************************)
(* C21: for every input whose token log-probabilities are all <= 0, the    *)
(* mean token confidence returned by _calculate_average_confidence lies    *)
(* in the closed interval [0, 1].                                          *)
(***************************************************************************)
C21_ConfidenceInUnitInterval ==
    pc = "aggregated" /\ AllNonPositive =>
        /\ RGe(result.average_token_confidence, Zero)
        /\ RGe(Rat(1, 1), result.average_token_confidence)

\* Tokens of log-probability -1, -2 and -3: confidence 7/24, inside (0, 1).
C21_Witness ==
    /\ pc = "aggregated"
    /\ AllNonPositive
    /\ TotalTokens = 3
    /\ RGt(result.average_token_confidence, Zero)
    /\ RGt(Rat(1, 1), result.average_token_confidence)

\* The bound needs the premise: a token of log-probability 1 gives 2.
C21_WitnessPositiveLogprob ==
    /\ pc = "aggregated"
    /\ all_logprobs = <<LPObj(<<Tok(Rat(1, 1))>>)>>
    /\ result.average_token_confidence = Rat(2, 1)

\* x <= y for finite x and y, compared over their least common denominator.
AtMost(x, y) ==
    LET g == GCD(x.d, y.d)
    IN  x.n * (y.d \div g) <= y.n * (x.d \div g)

(***************************************************************************)
(* C22: the mean token confidence is monotonic in log-probability: when a  *)
(* second input has the same token positions as a first and no token       *)
(* log-probability smaller than the corresponding one of the first, the    *)
(* confidence returned for the second is greater than or equal to the one  *)
(* returned for the first.                                                 *)
(***************************************************************************)
C22_ConfidenceMonotonic ==
    pc = "reaggregated" =>
        AtMost(result.confidence_before, result.average_token_confidence)

\* -2 raised to -1 in a two-token sample and -1/2 raised to 0 in another:
\* the confidence grows strictly.
C22_Witness ==
    /\ pc = "reaggregated"
    /\ all_logprobs = <<LPObj(<<Tok(Rat(-1, 1)), Tok(Rat(-3, 1))>>), None,
                        LPObj(<<Tok(Zero), NullTok>>)>>
    /\ ~AtMost(result.average_token_confidence, result.confidence_before)
    /\ RGt(result.confidence_before, Zero)

\* An input raised to itself: the confidence stays equal.
C22_WitnessEqual ==
    /\ pc = "reaggregated"
    /\ TotalTokens = 3
    /\ result.average_token_confidence = result.confidence_before

(***************************************************************************)
(* format_results called by the caller of measure_uncertainty on the       *)
(* dictionary it returned, and, as the tests call it, on a dictionary      *)
(* built around the analysis of _analyze_uncertainty alone.                *)
(***************************************************************************)
\* The uncertainty_threshold values the caller passes here.
FormatThresholds == { Rat(3333, 10000) }

FormatInit ==
    \/ DiversityInit
    \/ /\ pc = "sample"
       /\ prompt \in Prompts
       /\ num_samples \in 1..MaxSamples
       /\ uncertainty_threshold \in FormatThresholds
       /\ i = 0
       /\ responses = <<>>
       /\ all_logprobs = <<>>
       /\ answer_mean_logprob = Zero
       /\ phrase_idx = 1
       /\ phrase_logprobs = EmptyDict
       /\ uncertainty_phrase_mean = Zero
       /\ uncertainty_ratio = Zero
       /\ is_uncertain = FALSE
       /\ tool_response = <<>>
       /\ result = EmptyDict
       /\ provider_log = <<>>
       /\ stages = <<>>
       /\ formatted = ""
       /\ calls = 1
       /\ conversation_history = <<>>
       /\ self_uncertainty_threshold = Rat(1, 1)
       /\ measure_calls = <<>>
       /\ processed = 0
       /\ process_outcome = "none"

\* The caller builds the results dictionary around the analysis.
BuildResults ==
    /\ pc = "analyzed"
    /\ result' = [prompt |-> prompt,
                  num_samples |-> Len(responses),
                  responses |-> responses,
                  logprobs |-> all_logprobs,
                  uncertainty_analysis |-> result.uncertainty_analysis]
    /\ pc' = "built"
    /\ UNCHANGED <<prompt, num_samples, uncertainty_threshold, i, responses, all_logprobs,
                   answer_mean_logprob, phrase_idx, phrase_logprobs,
                   uncertainty_phrase_mean, uncertainty_ratio, is_uncertain,
                   tool_response, provider_log, stages>>
    /\ UNCHANGED outside

\* format_results(result) on the dictionary a caller holds: the one
\* measure_uncertainty returned, or one built around an analysis.
FormatResults ==
    /\ pc \in {"done", "built"}
    /\ LET r == format_results(result)
       IN  /\ formatted' = r.output
           /\ result' = r.results
    /\ pc' = "formatted"
    /\ UNCHANGED <<prompt, num_samples, uncertainty_threshold, i, responses, all_logprobs,
                   answer_mean_logprob, phrase_idx, phrase_logprobs,
                   uncertainty_phrase_mean, uncertainty_ratio, is_uncertain,
                   tool_response, provider_log, stages, calls>>
    /\ UNCHANGED <<conversation_history, self_uncertainty_threshold, measure_calls,
                   processed, process_outcome>>

FormatNext ==
    \/ Next
    \/ AddResponse
    \/ AnalyzeResponses
    \/ BuildResults
    \/ FormatResults

FormatSpec == FormatInit /\ [][FormatNext]_vars

\* sub occurs in text
Contains(text, sub) ==
    \E k \in 1..(Len(text) - Len(sub) + 1) : SubSeq(text, k, k + Len(sub) - 1) = sub

\* The levels in upper case.
LevelUpper(level) ==
    CASE level = "high" -> "HIGH"
      [] level = "medium" -> "MEDIUM"
      [] level = "low" -> "LOW"
      [] level = "unknown" -> "UNKNOWN"

Formatted == pc = "formatted"
\* The formatted dictionary is one measure_uncertainty returned.
FormattedMeasurement == Formatted /\ "tool_response" \in DOMAIN result

(***************************************************************************)
(* C23 as stated: for every result produced by measure_uncertainty,        *)
(* including the result of a measurement in which all samples failed, the  *)
(* text of format_results contains the literal prompt and the uppercase    *)
(* rendering of the analysis's uncertainty level.  Violated: for an error  *)
(* analysis the text has the error message and no level.                   *)
(***************************************************************************)
C23_AlwaysShowsPromptAndLevel ==
    FormattedMeasurement =>
        /\ Contains(formatted, result.prompt)
        /\ Contains(formatted, LevelUpper(result.uncertainty_analysis.uncertainty_level))

(***************************************************************************)
(* C23 amended: the text of format_results always contains the literal     *)
(* prompt; it contains the uppercase rendering of the uncertainty level    *)
(* when the analysis has no error field, and when it has one (all samples  *)
(* failed) the text contains the error message and not the level.          *)
(***************************************************************************)
C23_ShowsPromptAndLevelOrError ==
    FormattedMeasurement =>
        LET analysis == result.uncertainty_analysis
        IN  /\ Contains(formatted, "Prompt: " \o result.prompt \o "\n")
            /\ "error" \notin DOMAIN analysis =>
                 Contains(formatted, "\nUncertainty Level: "
                                     \o LevelUpper(analysis.uncertainty_level) \o "\n")
            /\ "error" \in DOMAIN analysis =>
                 /\ Contains(formatted, "\nError: " \o analysis.error \o "\n")
                 /\ ~Contains(formatted, LevelUpper(analysis.uncertainty_level))

\* A measurement with a valid sample, formatted.
C23_Witness ==
    /\ FormattedMeasurement
    /\ ~AllSamplesFailed
    /\ result.uncertainty_analysis.uncertainty_level = "high"
    /\ Contains(formatted, "Uncertainty Level: HIGH")
    /\ Contains(formatted, "What is the capital of France?")

\* A measurement in which all samples failed, formatted.
C23_WitnessAllFailed ==
    /\ FormattedMeasurement
    /\ AllSamplesFailed
    /\ result.uncertainty_analysis.uncertainty_level = "unknown"
    /\ Contains(formatted, "Error: No valid responses received")
    /\ ~Contains(formatted, "UNKNOWN")

(***************************************************************************)
(* C24: format_results leaves its input unchanged: after the call the      *)
(* result record, its analysis and its responses list are equal to what    *)
(* they were before the call, for success results, error results and       *)
(* results without ratio fields.                                           *)
(***************************************************************************)
C24_FormatLeavesInputUnchanged ==
    [][pc' = "formatted" =>
         /\ result' = result
         /\ result'.uncertainty_analysis = result.uncertainty_analysis
         /\ result'.responses = result.responses]_vars

\* A formatted result without ratio fields: the analysis and the responses
\* are still those the dictionary was built from.
C24_Witness ==
    /\ Formatted
    /\ ~FormattedMeasurement
    /\ Len(responses) = 3
    /\ "error" \notin DOMAIN result.uncertainty_analysis
    /\ "uncertainty_ratio" \notin DOMAIN result.uncertainty_analysis
    /\ result.uncertainty_analysis = _analyze_uncertainty(responses, all_logprobs)
    /\ result.responses = responses
    /\ formatted # ""

\* A formatted success result of a measurement.
C24_WitnessSuccess ==
    /\ FormattedMeasurement
    /\ "error" \notin DOMAIN result.uncertainty_analysis
    /\ "uncertainty_ratio" \in DOMAIN result.uncertainty_analysis
    /\ result.responses = responses
    /\ result.logprobs = all_logprobs

\* A formatted error result of a measurement.
C24_WitnessError ==
    /\ FormattedMeasurement
    /\ "error" \in DOMAIN result.uncertainty_analysis
    /\ result.responses = responses
    /\ result.uncertainty_analysis.uncertainty_level = "unknown"

(***************************************************************************)
(* C28: the reported verdict agrees with the reported numbers: in every    *)
(* analysis returned by measure_uncertainty, is_uncertain is true exactly  *)
(* when the reported uncertainty_ratio (the value stored after rounding to *)
(* 4 decimals) is greater than the reported uncertainty_threshold, so the  *)
(* formatter's "UNCERTAIN (ratio > threshold)" / "CONFIDENT (ratio <=      *)
(* threshold)" line is true of the ratio and threshold lines above it.     *)
(* Violated: the verdict is taken on the ratio before it is rounded; a     *)
(* ratio of 1/3 against a threshold of 0.3333 is reported as 0.3333 with   *)
(* the verdict UNCERTAIN.                                                  *)
(***************************************************************************)
C28_VerdictAgreesWithReportedNumbers ==
    FormattedMeasurement =>
        LET analysis == result.uncertainty_analysis
            above == RGt(analysis.uncertainty_ratio, analysis.uncertainty_threshold)
        IN  /\ analysis.is_uncertain <=> above
            /\ Contains(formatted, "Status: UNCERTAIN (ratio > threshold)") => above
            /\ Contains(formatted, "Status: CONFIDENT (ratio <= threshold)") => ~above

\* The state the code reaches on that input.
C28_ReportedEqualButUncertain ==
    /\ FormattedMeasurement
    /\ uncertainty_ratio = Rat(1, 3)
    /\ result.uncertainty_analysis.uncertainty_ratio = Rat(3333, 10000)
    /\ result.uncertainty_analysis.uncertainty_threshold = Rat(3333, 10000)
    /\ result.uncertainty_analysis.is_uncertain
    /\ Contains(formatted, "Uncertainty Ratio: 0.3333\nThreshold: 0.3333\nStatus: UNCERTAIN (ratio > threshold)")

\* The samples counted for diversity and the samples whose tokens enter the
\* confidence and answer-mean averages.
DiversitySamples == { k \in 1..Len(responses) : ~IsNone(responses[k]) }
ConfidenceSamples == { k \in 1..Len(all_logprobs) : ~IsNone(all_logprobs[k]) }

(***************************************************************************)
(* C29: after sampling, for every position the text entry is None exactly  *)
(* when the log-probability entry is None, also when the provider returns  *)
(* a successful completion without log-probabilities or without text;      *)
(* hence the samples counted for diversity and the samples whose tokens    *)
(* enter the confidence and answer-mean averages are the same set.         *)
(* Violated: the two lists are appended to independently, so a completion  *)
(* with a text and no log-probabilities (or the reverse) is in one set     *)
(* only.                                                                   *)
(***************************************************************************)
C29_TextAndLogprobsNoneTogether ==
    LoopEnded =>
        /\ \A k \in 1..Len(responses) : IsNone(responses[k]) <=> IsNone(all_logprobs[k])
        /\ DiversitySamples = ConfidenceSamples

(***************************************************************************)
(* measure_uncertainty called up to MaxCalls times on one measurer.        *)
(***************************************************************************)
RepeatInit ==
    /\ pc = "sample"
    /\ prompt \in Prompts
    /\ num_samples \in RepeatSampleCounts
    /\ uncertainty_threshold \in RepeatThresholds
    /\ i = 0
    /\ responses = <<>>
    /\ all_logprobs = <<>>
    /\ answer_mean_logprob = Zero
    /\ phrase_idx = 1
    /\ phrase_logprobs = EmptyDict
    /\ uncertainty_phrase_mean = Zero
    /\ uncertainty_ratio = Zero
    /\ is_uncertain = FALSE
    /\ tool_response = <<>>
    /\ result = EmptyDict
    /\ provider_log = <<>>
    /\ stages = <<>>
    /\ formatted = ""
    /\ calls = 1
    /\ conversation_history = <<>>
    /\ self_uncertainty_threshold = Rat(1, 1)
    /\ measure_calls = <<>>
    /\ processed = 0
    /\ process_outcome = "none"

RepeatNext == Next \/ CallAgain

RepeatSpec == RepeatInit /\ [][RepeatNext]_vars

\* The texts this call's sampling requests returned, None for a failed one.
RECURSIVE LogTexts(_)
LogTexts(log) ==
    IF Len(log) = 0 THEN <<>>
    ELSE <<IF Head(log).outcome.ok THEN Head(log).outcome.text ELSE None>>
         \o LogTexts(Tail(log))

(***************************************************************************)
(* C25: the phrase log-probability map is recomputed on every measurement: *)
(* in any sequence of measure_uncertainty calls on the same measurer, each *)
(* call issues its own request for every reference phrase, and the result  *)
(* of a call depends only on that call's arguments and on the provider     *)
(* responses received during that call, not on earlier calls.              *)
(***************************************************************************)
C25_EveryCallRecomputesPhraseMap ==
    /\ calls \in 1..MaxCalls
    /\ Evaluated =>
          /\ Len(PhraseLog) = NumPhrases
          /\ \A k \in 1..NumPhrases :
                /\ PhraseLog[k].index = k
                /\ phrase_logprobs[uncertainty_phrases[k]] = PhraseLogMean(PhraseLog[k])
    /\ pc = "done" =>
          /\ result.prompt = prompt
          /\ result.num_samples = num_samples
          /\ Len(SampleLog) = num_samples
          /\ result.responses = LogTexts(SampleLog)
          /\ result.uncertainty_analysis.uncertainty_threshold = uncertainty_threshold
          /\ result.uncertainty_analysis.uncertainty_phrase_logprobs =
                [p \in { uncertainty_phrases[k] : k \in 1..NumPhrases } |->
                    LET k == CHOOSE x \in 1..NumPhrases : uncertainty_phrases[x] = p
                    IN  Round(PhraseLogMean(PhraseLog[k]), 4)]
          /\ result.uncertainty_analysis.uncertainty_phrase_mean_logprob =
                Round(RDivInt(SumPhraseMeans(PhraseLog), NumPhrases), 4)
          /\ result.is_uncertain = is_uncertain

\* A second call has returned: it made its own three phrase requests, the
\* first of which failed, so its map starts with 0.
C25_Witness ==
    /\ calls = 2
    /\ pc = "done"
    /\ Len(PhraseLog) = NumPhrases
    /\ ~PhraseLog[1].outcome.ok
    /\ PhraseLog[2].outcome.ok
    /\ result.uncertainty_analysis.uncertainty_phrase_logprobs[uncertainty_phrases[1]] = Zero
    /\ result.uncertainty_analysis.uncertainty_phrase_logprobs[uncertainty_phrases[2]] = Rat(-2, 1)

\* A second call is between two phrase requests while the first call's map
\* had other values: the map holds only what this call has received.
C25_WitnessSecondCallStartsEmpty ==
    /\ calls = 2
    /\ pc = "phrases"
    /\ phrase_idx = 2
    /\ DOMAIN phrase_logprobs = { uncertainty_phrases[1] }
    /\ Len(PhraseLog) = 1

(***************************************************************************)
(* LLMFunctionInterface (llm_interface.py) as main.py drives it: the       *)
(* user's threshold is set once, then process_user_message and             *)
(* reset_conversation are called in any order; an exception raised by      *)
(* process_user_message is caught by the loop of main, which goes on.      *)
(***************************************************************************)
MaxMessages == 2

\* The thresholds the user enters (main.py lines 42-50); 1.0 is the default.
UserThresholds == { Rat(1, 1), Rat(4, 5) }

UserMessages == { "What is the capital of France?" }

\* What json.loads(tool_call.function.arguments) gives: None when it raises
\* on malformed text, else the dictionary. A num_samples that is not an
\* integer is None; range() raises on it inside measure_uncertainty.
ToolArguments ==
    { None,
      Some(EmptyDict),
      Some("prompt" :> "Capital of France?"),
      Some("prompt" :> "Capital of France?" @@ "uncertainty_threshold" :> Rat(5, 1)),
      Some("num_samples" :> Some(3) @@ "uncertainty_threshold" :> Rat(1, 2)),
      Some("num_samples" :> None) }

ToolCall(id, arguments) ==
    [id |-> id, type |-> "function",
     function |-> [name |-> "measure_uncertainty", arguments |-> arguments]]

\* The tool_calls of the first completion's message: none, one, or two.
ToolCallLists ==
    {<<>>}
    \cup { <<ToolCall("call_1", a)>> : a \in ToolArguments }
    \cup { <<ToolCall("call_1", Some(EmptyDict)), ToolCall("call_2", a)>> :
             a \in { None, Some(EmptyDict) } }

\* What a chat.completions.create call of the interface does.
CreateRaises == [ok |-> FALSE, content |-> None, tool_calls |-> <<>>]
FirstCompletions ==
    {CreateRaises} \cup { [ok |-> TRUE, content |-> None, tool_calls |-> tcs] :
                            tcs \in ToolCallLists }
FinalCompletions ==
    { CreateRaises, [ok |-> TRUE, content |-> Some("Paris."), tool_calls |-> <<>>] }

\* What the provider does during the measurement: the log-probability of
\* the answer token and of every phrase token.
MeasureScenarios ==
    { [answer |-> Rat(-1, 20), phrases |-> Rat(-2, 1)],
      [answer |-> Rat(-2, 1), phrases |-> Rat(-1, 1)] }

\* The dictionary measure_uncertainty returns when every sample is "Paris"
\* under scenario s (lines 60-145).
MeasureResult(kwargs, s) ==
    LET n == Get(kwargs.num_samples)
        resps == [k \in 1..n |-> Some("Paris")]
        lps == [k \in 1..n |-> LPObj(<<Tok(s.answer)>>)]
        d == [p \in { uncertainty_phrases[k] : k \in 1..Len(uncertainty_phrases) } |->
                s.phrases]
        answer_mean == _calculate_mean_logprob(lps)
        phrase_mean == PhraseMean(d)
        ratio == UncertaintyRatio(phrase_mean, answer_mean)
        uncertain == IsUncertain(ratio, kwargs.uncertainty_threshold)
    IN  [prompt |-> kwargs.prompt,
         num_samples |-> n,
         responses |-> resps,
         logprobs |-> lps,
         uncertainty_analysis |->
             FinalAnalysis(resps, lps, answer_mean, d, phrase_mean, ratio,
                           kwargs.uncertainty_threshold, uncertain),
         is_uncertain |-> uncertain,
         tool_response |-> IF uncertain THEN GenericMessage ELSE SelectResponse(resps)]

\* dict.get(key, default)
DictGet(d, key, default) == IF key \in DOMAIN d THEN d[key] ELSE default

\* Variant: a threshold in the tool-call arguments wins over the user's.
MeasureKwargsFromArguments(function_args, user_message, threshold) ==
    [prompt |-> DictGet(function_args, "prompt", user_message),
     num_samples |-> DictGet(function_args, "num_samples", Some(5)),
     temperature |-> DictGet(function_args, "temperature", Rat(7, 10)),
     uncertainty_threshold |-> DictGet(function_args, "uncertainty_threshold", threshold)]

\* Lines 156-161: the keyword arguments of the measure_uncertainty call.
MeasureKwargs(function_args, user_message, threshold) ==
    [prompt |-> DictGet(function_args, "prompt", user_message),
     num_samples |-> DictGet(function_args, "num_samples", Some(5)),
     temperature |-> DictGet(function_args, "temperature", Rat(7, 10)),
     uncertainty_threshold |-> threshold]

\* Lines 130-144: the assistant entry, with every tool call of the message.
AssistantToolCalls(response_message) ==
    [role |-> "assistant",
     content |-> response_message.content,
     tool_calls |-> response_message.tool_calls]

\* Lines 167-178: the tool entry; its content is the JSON text of tool_content.
ToolEntry(tool_call, uncertainty_results) ==
    [role |-> "tool",
     tool_call_id |-> tool_call.id,
     content |-> [json |-> [analysis |-> uncertainty_results.uncertainty_analysis,
                            is_uncertain |-> uncertainty_results.is_uncertain,
                            tool_response |-> uncertainty_results.tool_response]]]

\* process_user_message (lines 79-212) on history, with the outcomes first
\* and final of its two completion requests and the provider scenario s of
\* the measurement: the history it leaves, whether it raised, and the
\* measure_uncertainty calls it made.
process_user_message(history, threshold, user_message, first, s, final) ==
    LET h1 == Append(history, [role |-> "user", content |-> user_message])
        h2 == Append(h1, AssistantToolCalls(first))
        tool_call == first.tool_calls[1]
        function_args == Get(tool_call.function.arguments)
        kwargs == MeasureKwargs(function_args, user_message, threshold)
        call == [function_args |-> function_args, kwargs |-> kwargs]
        uncertainty_results == MeasureResult(kwargs, s)
        h3 == Append(h2, ToolEntry(tool_call, uncertainty_results))
        h4 == Append(h3, [role |-> "assistant", content |-> final.content])
    IN  IF ~first.ok
        THEN [history |-> h1, outcome |-> "raised", calls |-> <<>>]
        ELSE IF Len(first.tool_calls) = 0
        THEN [history |-> h1, outcome |-> "not called", calls |-> <<>>]
        ELSE IF IsNone(tool_call.function.arguments)
        THEN [history |-> h2, outcome |-> "raised", calls |-> <<>>]
        ELSE IF IsNone(kwargs.num_samples)
        THEN [history |-> h2, outcome |-> "raised", calls |-> <<call>>]
        ELSE IF ~final.ok
        THEN [history |-> h3, outcome |-> "raised", calls |-> <<call>>]
        ELSE [history |-> h4, outcome |-> "returned", calls |-> <<call>>]

InterfaceInit ==
    /\ pc = "interface"
    /\ prompt \in Prompts
    /\ num_samples = 0
    /\ uncertainty_threshold = Rat(1, 1)
    /\ i = 0
    /\ responses = <<>>
    /\ all_logprobs = <<>>
    /\ answer_mean_logprob = Zero
    /\ phrase_idx = 1
    /\ phrase_logprobs = EmptyDict
    /\ uncertainty_phrase_mean = Zero
    /\ uncertainty_ratio = Zero
    /\ is_uncertain = FALSE
    /\ tool_response = <<>>
    /\ result = EmptyDict
    /\ provider_log = <<>>
    /\ stages = <<>>
    /\ formatted = ""
    /\ calls = 0
    /\ conversation_history = <<>>
    /\ self_uncertainty_threshold \in UserThresholds
    /\ measure_calls = <<>>
    /\ processed = 0
    /\ process_outcome = "none"

measurement == <<pc, prompt, num_samples, uncertainty_threshold, i, responses,
                 all_logprobs, answer_mean_logprob, phrase_idx, phrase_logprobs,
                 uncertainty_phrase_mean, uncertainty_ratio, is_uncertain, tool_response,
                 result, provider_log, stages, formatted, calls>>

\* interface.process_user_message(user_input) from the loop of main.
ProcessUserMessage ==
    /\ processed < MaxMessages
    /\ \E user_message \in UserMessages, first \in FirstCompletions,
          s \in MeasureScenarios, final \in FinalCompletions :
         LET r == process_user_message(conversation_history, self_uncertainty_threshold,
                                       user_message, first, s, final)
         IN  /\ conversation_history' = r.history
             /\ process_outcome' = r.outcome
             /\ measure_calls' = measure_calls \o r.calls
    /\ processed' = processed + 1
    /\ UNCHANGED <<self_uncertainty_threshold, measurement>>

\* interface.reset_conversation() (lines 214-217).
ResetConversation ==
    /\ conversation_history # <<>>
    /\ conversation_history' = <<>>
    /\ process_outcome' = "reset"
    /\ UNCHANGED <<self_uncertainty_threshold, measure_calls, processed, measurement>>

InterfaceNext == ProcessUserMessage \/ ResetConversation

InterfaceSpec == InterfaceInit /\ [][InterfaceNext]_vars

(***************************************************************************)
(* Properties of the interface.                                            *)
(***************************************************************************)
CallIdx == 1..Len(measure_calls)
HistoryIdx == 1..Len(conversation_history)

\* The call's tool-call arguments carry a threshold of their own that
\* differs from the interface's.
CarriesOtherThreshold(call) ==
    /\ "uncertainty_threshold" \in DOMAIN call.function_args
    /\ call.function_args["uncertainty_threshold"] # self_uncertainty_threshold

\* C26: every measure_uncertainty call made by process_user_message is given
\* the interface's own uncertainty_threshold, whatever the tool-call
\* arguments of the model say, and the analysis put into the tool entry
\* reports that threshold.
C26_MeasureUsesInterfaceThreshold ==
    /\ \A k \in CallIdx :
         measure_calls[k].kwargs.uncertainty_threshold = self_uncertainty_threshold
    /\ \A k \in HistoryIdx :
         conversation_history[k].role = "tool" =>
           conversation_history[k].content.json.analysis.uncertainty_threshold
             = self_uncertainty_threshold

\* A measurement was made and answered although the arguments of the model
\* carried another threshold.
C26_Witness ==
    /\ process_outcome = "returned"
    /\ \E k \in CallIdx : CarriesOtherThreshold(measure_calls[k])
    /\ \E k \in HistoryIdx : conversation_history[k].role = "tool"

\* The tool call t recorded in entry k is answered within the entries that
\* directly follow entry k.
AnsweredAfter(k, t) ==
    \E m \in (k + 1)..(k + Len(conversation_history[k].tool_calls)) :
       /\ m <= Len(conversation_history)
       /\ conversation_history[m].role = "tool"
       /\ conversation_history[m].tool_call_id = t.id

\* C27: every tool call recorded in an assistant entry of the history is
\* answered by a tool entry with the same tool_call_id directly after that
\* assistant entry.
C27_EveryToolCallAnswered ==
    \A k \in HistoryIdx :
       "tool_calls" \in DOMAIN conversation_history[k] =>
         \A j \in 1..Len(conversation_history[k].tool_calls) :
            AnsweredAfter(k, conversation_history[k].tool_calls[j])

\* A later message was processed on a history that holds an unanswered tool
\* call of an earlier one.
C27_UnansweredCarriedOver ==
    /\ processed = 2
    /\ Len(conversation_history) > 2
    /\ "tool_calls" \in DOMAIN conversation_history[2]
    /\ conversation_history[3].role = "user"

====
